---- MODULE Spec2Model ----
(***************************************************************************)
(* Render resource lifecycle of the HTML-to-PDF service (index.js, kept as *)
(* src/unnamed/part_001): the persistent browser and its launch promise,   *)
(* the two POST handlers, renderPdfFromHtml and the response-finished      *)
(* cleanup.                                                                *)
(*                                                                         *)
(* One action is one turn of the Node event loop: the synchronous code a   *)
(* callback runs plus the promise reactions it schedules, which run before *)
(* any other I/O event.  The external events are: a request arrives, an    *)
(* engine operation settles, an engine loses its connection, its           *)
(* "disconnected" event is delivered, a response finishes, a client        *)
(* aborts.                                                                 *)
(*                                                                         *)
(* The rendering engine is an external collaborator.  isConnected() and    *)
(* the "disconnected" event are two observations of it; the code guards    *)
(* the state in which a handle is stored but no longer connected           *)
(* (part_001:166), so connection loss and the delivery of its event are    *)
(* separate steps here (the delivery may follow at once).                  *)
(*                                                                         *)
(* The helper functions withTimeout, sendPdfBuffer and safeFilename are    *)
(* followed on their own, in SpecTimeout, SpecSend and SpecFilename.       *)
(***************************************************************************)
EXTENDS Integers, FiniteSets, Sequences, TLC

\* ---------------------------------------------------------------- bounds
\* Number of HTTP requests handled in one behaviour of Spec (both handlers in
\* full).
NReq == 1
\* Number of requests in one behaviour of SpecManager (the shared engine
\* lifecycle manager with its callers, up to the session they open).
NAcq == 2
\* Number of requests, of either handler, in one behaviour of SpecSessions
\* (each followed from its arrival to the session it opens).
NSes == 2
\* Number of termination signals (SIGINT, SIGTERM) in one behaviour of
\* SpecShutdown.
NSig == 2
\* Number of requests in one behaviour of SpecShutdown.
NShut == 1
MaxPop ==
  CHOOSE n \in {NReq, NAcq, NSes, NShut} :
    \A m \in {NReq, NAcq, NSes, NShut} : m <= n
\* Number of withTimeout calls in one behaviour of SpecTimeout.
NCalls == 3
\* Longest buffer handed to sendPdfBuffer in SpecSend.
MaxBuf == 5
\* Longest string handed to safeFilename in SpecFilename.
MaxName == 5

\* ---------------------------------------------------------------- universe
None == 0
Failed == -1

\* Caller 0 is the startup code (part_001:484-493); the other callers are the
\* requests.
Startup == 0

\* Every caller starts at most one shared launch.
SharedIds == 1..(MaxPop + 1)
\* The engine an isolated request launches for itself.
IsoIdOnePerProcess(r) == MaxPop + 2

IsoId(r) == MaxPop + 1 + r
EngineIds == 1..(2 * MaxPop + 1)

VARIABLES
  phase,                          \* "running" | "closing" | "exited"
  signals,                        \* number of SIGINT / SIGTERM signals handled
  shutClosing,                    \* handles whose close() a shutdown call awaits
  persistentBrowser,              \* part_001:161
  persistentBrowserLaunchPromise, \* part_001:162
  staleFired,                     \* handle whose "disconnected" listener cleared
                                  \* the store since the last acquire (history)
  engState,                       \* engine -> none|launching|connected|disconnected|closed|failed
  engCloses,                      \* engine -> number of browser.close() calls
  disconnectPending,              \* engines whose "disconnected" event is queued
  pc,                             \* caller -> position in its handler
  mode,                           \* request -> "isolated" | "optimized"
  html,                           \* request -> value returned by ensureHtmlInput
  browser,                        \* request -> handler's `browser`
  page,                           \* request -> handler's `page` is set
  ticket,                         \* caller -> launch promise it awaited
  got,                            \* caller -> result of launchPersistentBrowser()
  launches,                       \* caller -> puppeteer.launch calls it made
  err,                            \* request -> what failed
  headersSent,                    \* request -> res.headersSent
  status,                         \* request -> status code written
  finished,                       \* request -> "finish" event has fired
  aborted,                        \* request -> connection closed before finish
  fpc,                            \* request -> position of the finish callback
  pageState,                      \* request's session: none|open|closing|closed
  pageEngine,                     \* request's session -> engine it was opened on
  pageCloses,                     \* request's session -> number of page.close() calls
  promise,                        \* withTimeout call -> state of the operation's promise
  timer,                          \* withTimeout call -> state of its setTimeout timer
  message,                        \* withTimeout call -> the `message` argument
  raced,                          \* withTimeout call -> what the returned promise settled with
  sendPc,                         \* sendPdfBuffer: "call" | "returned" | "threw"
  sendBuffer,                     \* sendPdfBuffer: the bytes of `buffer`
  sendRes,                        \* sendPdfBuffer: the response object `res`
  sendLog,                        \* sendPdfBuffer: the events logged
  nameInput,                      \* safeFilename: `input`
  nameResult                      \* safeFilename: the value returned

\* The requests and the callers of the behaviour at hand.
Req == DOMAIN mode
Callers == DOMAIN pc

managerVars == <<persistentBrowser, persistentBrowserLaunchPromise, staleFired>>
engineVars == <<engState, engCloses, disconnectPending>>
callVars == <<ticket, got, launches>>
resVars == <<headersSent, status, finished, aborted>>
pageVars == <<pageState, pageEngine, pageCloses>>
reqVars == <<mode, html, browser, page, err, fpc>>
timeoutVars == <<promise, timer, message, raced>>
sendVars == <<sendPc, sendBuffer, sendRes, sendLog>>
nameVars == <<nameInput, nameResult>>
helperVars == <<timeoutVars, sendVars, nameVars>>
shutdownVars == <<signals, shutClosing>>
mainVars == <<phase, shutdownVars, managerVars, engineVars, pc, callVars, resVars,
              pageVars, reqVars>>
vars == <<mainVars, helperVars>>

\* ---------------------------------------------------------------- engine
isConnected(b) == engState[b] = "connected"

\* Shared launches are numbered in the order they start.
NextShared == Cardinality({e \in SharedIds : engState[e] # "none"}) + 1

\* ------------------------------------------- launchPersistentBrowser (164-193)
\* part_001:166  if (persistentBrowser && persistentBrowser.isConnected())
ReuseStoredNoConnCheck == persistentBrowser # None

ReuseStoredNever == FALSE

ReuseStored == persistentBrowser # None /\ isConnected(persistentBrowser)

\* part_001:171  if (persistentBrowserLaunchPromise)
AwaitOngoingNever == FALSE

AwaitOngoing == persistentBrowserLaunchPromise # None

\* part_001:179  persistentBrowser = browser
ThenStore(b) == b

\* part_001:183  persistentBrowser = null   (the "disconnected" listener of b)
OnDisconnected(b) == None

\* part_001:188-190  .finally(() => { persistentBrowserLaunchPromise = null })
FinallyKeep == persistentBrowserLaunchPromise

FinallyClear == None

\* What a caller that awaits promise t gets once t has settled.
Outcome(t) == IF engState[t] = "failed" THEN Failed ELSE t
Settled(t) == engState[t] \notin {"none", "launching"}

AcquireKind ==
  IF ReuseStored THEN "reuse"
  ELSE IF AwaitOngoing THEN "await"
  ELSE "launch"

\* The value the caller's `await launchPersistentBrowser()` has when the call
\* returns at once, None while the caller must wait for the launch.
AcquireResult ==
  CASE AcquireKind = "reuse" -> persistentBrowser
    [] AcquireKind = "await" ->
         IF Settled(persistentBrowserLaunchPromise)
         THEN Outcome(persistentBrowserLaunchPromise) ELSE None
    [] OTHER -> None

AcquireTicket ==
  CASE AcquireKind = "reuse" -> None
    [] AcquireKind = "await" -> persistentBrowserLaunchPromise
    [] OTHER -> NextShared

launchPersistentBrowser(c) ==
  /\ ticket' = [ticket EXCEPT ![c] = AcquireTicket]
  /\ got' = [got EXCEPT ![c] = AcquireResult]
  /\ IF AcquireKind = "launch"
     THEN /\ persistentBrowserLaunchPromise' = NextShared
          /\ engState' = [engState EXCEPT ![NextShared] = "launching"]
          /\ launches' = [launches EXCEPT ![c] = @ + 1]
     ELSE UNCHANGED <<persistentBrowserLaunchPromise, engState, launches>>
  /\ staleFired' = None
  /\ UNCHANGED persistentBrowser

\* ------------------------------------------------------------ ensureHtmlInput
\* part_001:295-314: a missing or blank body is answered with 400 and the
\* value of res.status(400).json(...) is returned, which is the response
\* object; otherwise the html string is returned.
ensureHtmlInput(valid) == IF valid THEN "html" ELSE "res"

\* part_001:335, 408  if (html === null) return;
HandlerReturns(h) == h = "null"

\* ------------------------------------------------------------ catch blocks
\* part_001:382-387 is present in the isolated handler only (439-445 has no
\* browser close).
CatchClosesBrowserAlways(r) == browser[r] # None

CatchClosesBrowser(r) == mode[r] = "isolated" /\ browser[r] # None

\* part_001:389-398, 446-455
Respond500Unchecked(r) ==
  /\ pc' = [pc EXCEPT ![r] = "done"]
  /\ headersSent' = [headersSent EXCEPT ![r] = TRUE]
  /\ status' = [status EXCEPT ![r] = 500]

Respond500Never(r) ==
  /\ pc' = [pc EXCEPT ![r] = "done"]
  /\ UNCHANGED <<headersSent, status>>

Respond500(r) ==
  /\ pc' = [pc EXCEPT ![r] = "done"]
  /\ IF ~headersSent[r]
     THEN /\ headersSent' = [headersSent EXCEPT ![r] = TRUE]
          /\ status' = [status EXCEPT ![r] = 500]
     ELSE UNCHANGED <<headersSent, status>>

\* part_001:382-398: close the browser if the handler holds one, then answer.
CatchBrowser(r) ==
  IF CatchClosesBrowser(r)
  THEN /\ engCloses' = [engCloses EXCEPT ![browser[r]] = @ + 1]
       /\ pc' = [pc EXCEPT ![r] = "catchBrowserClose"]
       /\ UNCHANGED <<headersSent, status>>
  ELSE /\ UNCHANGED engCloses
       /\ Respond500(r)

\* part_001:374-398, 439-456: the handler's catch block from its first line;
\* hasPage is the handler's `page` at that moment.
EnterCatch(r, hasPage) ==
  IF hasPage /\ pageState[r] # "closed"
  THEN /\ pageCloses' = [pageCloses EXCEPT ![r] = @ + 1]
       /\ pageState' = [pageState EXCEPT ![r] = "closing"]
       /\ pc' = [pc EXCEPT ![r] = "catchPageClose"]
       /\ UNCHANGED <<engCloses, headersSent, status>>
  ELSE /\ UNCHANGED <<pageCloses, pageState>>
       /\ CatchBrowser(r)

\* part_001:259, 381, 387, 445  catch (_) {}: the error of a close on the
\* failure path is dropped, the error e in flight stays what it was.
CleanupErrorReplaces(e, ok) == IF ok THEN e ELSE "cleanup"

Swallow(e, ok) == e

\* page.close() settles: the session is closed, or the close failed and the
\* error is swallowed (part_001:259, 358, 381, 429, 445).
AfterPageClose(r, ok) ==
  [pageState EXCEPT ![r] = IF ok \/ @ = "closed" THEN "closed" ELSE "open"]

\* browser.close() settles.
AfterBrowserClose(b, ok) ==
  IF ok THEN [engState EXCEPT ![b] = "closed"] ELSE engState

\* ------------------------------------------------------- withTimeout (198-204)
\* The withTimeout calls of the behaviour at hand.
Calls == DOMAIN promise

\* The `message` arguments: the two of renderPdfFromHtml (part_001:234, 247)
\* and a call that passes none.
Messages == {"undefined", "Timed out while setting page content",
             "Timed out while generating PDF"}

\* part_001:198  message = "Operation timed out"
Message(m) == IF m = "undefined" THEN "Operation timed out" ELSE m

\* part_001:203  Promise.race: the first settlement is the outcome of the
\* returned promise, every later one is ignored.
RaceLastWins(cur, new) == new

Race(cur, new) == IF cur = "pending" THEN new ELSE cur

\* part_001:203  clearTimeout(timer): cancels a timer that has not fired.
clearTimeoutSkipped(t) == t

clearTimeout(t) == IF t = "armed" THEN "cleared" ELSE t

\* part_001:198-203: call k is made with an operation that is still running:
\* the timer is armed and the race is open.  Calls are numbered in the order
\* in which they are made.
withTimeout(k, m) ==
  /\ promise[k] = "none" /\ \A j \in Calls : j < k => promise[j] # "none"
  /\ promise' = [promise EXCEPT ![k] = "pending"]
  /\ timer' = [timer EXCEPT ![k] = "armed"]
  /\ message' = [message EXCEPT ![k] = m]
  /\ raced' = [raced EXCEPT ![k] = "pending"]
  /\ UNCHANGED <<mainVars, sendVars, nameVars>>

\* The operation of call k settles: promise.finally runs clearTimeout (203),
\* then the promise it returned settles the race with the operation's outcome.
OperationSettle(k, out) ==
  /\ promise[k] = "pending"
  /\ promise' = [promise EXCEPT ![k] = out]
  /\ timer' = [timer EXCEPT ![k] = clearTimeout(@)]
  /\ raced' = [raced EXCEPT ![k] = Race(@, out)]
  /\ UNCHANGED <<message, mainVars, sendVars, nameVars>>

\* part_001:201: the timer of call k fires and rejects the timeout promise
\* with new Error(message).  Nothing touches the operation.
TimerFire(k) ==
  /\ timer[k] = "armed"
  /\ timer' = [timer EXCEPT ![k] = "fired"]
  /\ raced' = [raced EXCEPT ![k] = Race(@, Message(message[k]))]
  /\ UNCHANGED <<promise, message, mainVars, sendVars, nameVars>>

\* ----------------------------------------------------- sendPdfBuffer (264-282)
\* Byte values: the five of "%PDF-", a NUL, and 165, which is "%" with its high
\* bit set.
Bytes == {0, 37, 45, 68, 70, 80, 165}
\* The buffers handed over: every byte string of up to MaxBuf bytes, alone and
\* followed by MaxBuf NUL bytes (so that lengths of two digits occur).
Heads == UNION {[1..n -> Bytes] : n \in 0..MaxBuf}
Buffers == Heads \cup {h \o [i \in 1..MaxBuf |-> 0] : h \in Heads}

\* part_001:266  "%PDF-" as character codes.
Signature == <<37, 80, 68, 70, 45>>

\* part_001:266  buffer.toString("ascii", 0, 5): the first bytes up to the
\* fifth, each decoded with its high bit cleared.
toStringAscii(buf, start, end) ==
  [i \in 1..((IF end < Len(buf) THEN end ELSE Len(buf)) - start) |->
     buf[start + i] % 128]

\* part_001:265-266
sigOk(buf) ==
  Len(buf) >= Len(Signature) /\ toStringAscii(buf, 0, Len(Signature)) = Signature

Digit == <<"0", "1", "2", "3", "4", "5", "6", "7", "8", "9">>

\* part_001:271  String(buffer.length): the decimal digits of n.
RECURSIVE String(_)
String(n) ==
  IF n < 10 THEN <<Digit[n + 1]>>
  ELSE String(n \div 10) \o <<Digit[(n % 10) + 1]>>

\* part_001:281  res.status(200).end(buffer): the body written.
EndBodyIfSigned(buf) == IF sigOk(buf) THEN buf ELSE <<>>

EndBody(buf) == buf

\* The response before any header is written, and one that has been answered
\* already (the 400 of ensureHtmlInput, part_001:295-314).
FreshRes ==
  [headersSent |-> FALSE, statusCode |-> 0, contentLength |-> <<>>, body |-> <<>>]
AnsweredRes ==
  [headersSent |-> TRUE, statusCode |-> 400, contentLength |-> <<>>, body |-> <<>>]

\* part_001:264-282.  res.set (267) throws once the headers have been sent;
\* otherwise the headers are set, a missing signature is logged (275-280) and
\* the buffer is written with status 200 (281).
sendPdfBuffer ==
  /\ sendPc = "call"
  /\ IF sendRes.headersSent
     THEN /\ sendPc' = "threw"
          /\ UNCHANGED <<sendRes, sendLog>>
     ELSE /\ sendPc' = "returned"
          /\ sendRes' = [headersSent |-> TRUE, statusCode |-> 200,
                         contentLength |-> String(Len(sendBuffer)),
                         body |-> EndBody(sendBuffer)]
          /\ sendLog' = IF sigOk(sendBuffer) THEN sendLog
                        ELSE sendLog \cup {"pdf_signature_missing"}
  /\ UNCHANGED <<sendBuffer, mainVars, timeoutVars, nameVars>>

\* ------------------------------------------------------ safeFilename (207-216)
Lower == <<"a", "b", "c", "d", "e", "f", "g", "h", "i", "j", "k", "l", "m",
           "n", "o", "p", "q", "r", "s", "t", "u", "v", "w", "x", "y", "z">>
Upper == <<"A", "B", "C", "D", "E", "F", "G", "H", "I", "J", "K", "L", "M",
           "N", "O", "P", "Q", "R", "S", "T", "U", "V", "W", "X", "Y", "Z">>
Range(f) == {f[i] : i \in DOMAIN f}

\* part_001:211  [^a-zA-Z0-9._-]
AllowList == Range(Lower) \cup Range(Upper) \cup Range(Digit) \cup {".", "_", "-"}
\* part_001:212  [\\/]
Separators == {"\\", "/"}
Whitespace == {" ", "\t", "\n"}

\* The characters of the inputs: the letters of ".pdf", an upper-case letter,
\* a blank and a path separator.
NameChars == {".", "p", "d", "f", "P", " ", "/"}
Strings == UNION {[1..n -> NameChars] : n \in 0..MaxName}
\* req.query.filename (part_001:367, 432): absent, a string, or an array.
NameInputs ==
  {[type |-> "undefined", chars |-> <<>>], [type |-> "object", chars |-> <<>>]}
    \cup {[type |-> "string", chars |-> c] : c \in Strings}

\* part_001:207  fallback = "document.pdf"
Fallback == <<"d", "o", "c", "u", "m", "e", "n", "t", ".", "p", "d", "f">>
DotPdf == <<".", "p", "d", "f">>

\* part_001:209  input.trim()
RECURSIVE TrimStart(_)
TrimStart(s) ==
  IF s # <<>> /\ Head(s) \in Whitespace THEN TrimStart(Tail(s)) ELSE s
RECURSIVE TrimEnd(_)
TrimEnd(s) ==
  IF s # <<>> /\ s[Len(s)] \in Whitespace
  THEN TrimEnd(SubSeq(s, 1, Len(s) - 1)) ELSE s
trim(s) == TrimEnd(TrimStart(s))

\* name.replace(/[class]+/g, "_"): every maximal run of characters of the
\* class (of its complement when negated) becomes one "_".
RECURSIVE replace(_, _, _, _)
replace(s, class, negated, inRun) ==
  IF s = <<>> THEN <<>>
  ELSE IF (Head(s) \in class) # negated
       THEN (IF inRun THEN <<>> ELSE <<"_">>) \o replace(Tail(s), class, negated, TRUE)
       ELSE <<Head(s)>> \o replace(Tail(s), class, negated, FALSE)

\* part_001:211-212
SanitizeSeparatorsOnly(s) == replace(s, Separators, FALSE, FALSE)

Sanitize(s) ==
  replace(replace(s, AllowList, TRUE, FALSE), Separators, FALSE, FALSE)

toLowerCase(s) ==
  [i \in DOMAIN s |->
     IF \E j \in DOMAIN Upper : Upper[j] = s[i]
     THEN Lower[CHOOSE j \in DOMAIN Upper : Upper[j] = s[i]] ELSE s[i]]

endsWith(s, suffix) ==
  Len(s) >= Len(suffix)
    /\ SubSeq(s, Len(s) - Len(suffix) + 1, Len(s)) = suffix

\* part_001:213  if (!name.toLowerCase().endsWith(".pdf")) name += ".pdf"
WithSuffixAlways(name) == name \o DotPdf

WithSuffix(name) ==
  IF ~endsWith(toLowerCase(name), DotPdf) THEN name \o DotPdf ELSE name

\* part_001:207-216
safeFilename(input) ==
  IF input.type # "string" \/ input.chars = <<>> THEN Fallback
  ELSE LET name == WithSuffix(Sanitize(trim(input.chars)))
       IN IF name = DotPdf \/ name = <<>> THEN Fallback ELSE name

\* The call and its return.
SafeFilenameCall ==
  /\ ~nameResult.returned
  /\ nameResult' = [returned |-> TRUE, name |-> safeFilename(nameInput)]
  /\ UNCHANGED <<nameInput, mainVars, timeoutVars, sendVars>>

\* ---------------------------------------------------------------- Init
\* The state once the server listens: the listen callback has called
\* launchPersistentBrowser() (part_001:484-493), so the first shared launch is
\* in flight and the startup code awaits it.  No request has arrived.
InitFor(n) ==
  /\ phase = "running"
  /\ signals = 0
  /\ shutClosing = {}
  /\ persistentBrowser = None
  /\ persistentBrowserLaunchPromise = 1
  /\ staleFired = None
  /\ engState = [e \in EngineIds |-> IF e = 1 THEN "launching" ELSE "none"]
  /\ engCloses = [e \in EngineIds |-> 0]
  /\ disconnectPending = {}
  /\ pc = [c \in 0..n |-> IF c = Startup THEN "acquire" ELSE "idle"]
  /\ mode = [r \in 1..n |-> "none"]
  /\ html = [r \in 1..n |-> "none"]
  /\ browser = [r \in 1..n |-> None]
  /\ page = [r \in 1..n |-> FALSE]
  /\ ticket = [c \in 0..n |-> IF c = Startup THEN 1 ELSE None]
  /\ got = [c \in 0..n |-> None]
  /\ launches = [c \in 0..n |-> IF c = Startup THEN 1 ELSE 0]
  /\ err = [r \in 1..n |-> "none"]
  /\ headersSent = [r \in 1..n |-> FALSE]
  /\ status = [r \in 1..n |-> 0]
  /\ finished = [r \in 1..n |-> FALSE]
  /\ aborted = [r \in 1..n |-> FALSE]
  /\ fpc = [r \in 1..n |-> "none"]
  /\ pageState = [r \in 1..n |-> "none"]
  /\ pageEngine = [r \in 1..n |-> None]
  /\ pageCloses = [r \in 1..n |-> 0]

\* No withTimeout, sendPdfBuffer or safeFilename call is followed.
NoTimeoutCalls ==
  promise = <<>> /\ timer = <<>> /\ message = <<>> /\ raced = <<>>
NoSendCall ==
  sendPc = "none" /\ sendBuffer = <<>> /\ sendRes = FreshRes /\ sendLog = {}
NoNameCall ==
  /\ nameInput = [type |-> "undefined", chars |-> <<>>]
  /\ nameResult = [returned |-> TRUE, name |-> Fallback]

Init == InitFor(NReq) /\ NoTimeoutCalls /\ NoSendCall /\ NoNameCall

Alive == phase # "exited"

\* Requests are numbered in the order in which they arrive.
NextToArrive(r) == pc[r] = "idle" /\ \A q \in Req : q < r => pc[q] # "idle"

\* ------------------------------------------------ POST /generate-pdf/isolated
\* part_001:333-342: validation, then puppeteer.launch is called.
IsolatedArrive(r, valid) ==
  /\ Alive /\ NextToArrive(r)
  /\ mode' = [mode EXCEPT ![r] = "isolated"]
  /\ html' = [html EXCEPT ![r] = ensureHtmlInput(valid)]
  /\ headersSent' = [headersSent EXCEPT ![r] = ~valid]
  /\ status' = [status EXCEPT ![r] = IF valid THEN 0 ELSE 400]
  /\ IF HandlerReturns(ensureHtmlInput(valid))
     THEN /\ pc' = [pc EXCEPT ![r] = "done"]
          /\ UNCHANGED <<engState, launches>>
     ELSE /\ pc' = [pc EXCEPT ![r] = "launch"]
          /\ engState' = [engState EXCEPT ![IsoId(r)] = "launching"]
          /\ launches' = [launches EXCEPT ![r] = @ + 1]
  /\ UNCHANGED <<helperVars, shutdownVars, phase, managerVars, engCloses, disconnectPending, ticket, got,
                 browser, page, err, fpc, finished, aborted, pageVars>>

\* part_001:342-348: the launch settles; on success renderPdfFromHtml starts
\* and calls browser.newPage() (220).
IsolatedLaunchSettle(r, ok) ==
  /\ Alive /\ pc[r] = "launch"
  /\ IF ok
     THEN /\ engState' = [engState EXCEPT ![IsoId(r)] = "connected"]
          /\ browser' = [browser EXCEPT ![r] = IsoId(r)]
          /\ pc' = [pc EXCEPT ![r] = "newPage"]
          /\ UNCHANGED <<err, engCloses, headersSent, status, pageCloses, pageState>>
     ELSE /\ engState' = [engState EXCEPT ![IsoId(r)] = "failed"]
          /\ err' = [err EXCEPT ![r] = "launch"]
          /\ UNCHANGED browser
          /\ EnterCatch(r, page[r])
  /\ UNCHANGED <<helperVars, shutdownVars, phase, managerVars, disconnectPending, callVars, mode, html,
                 page, fpc, finished, aborted, pageEngine>>

\* ----------------------------------------------- POST /generate-pdf/optimized
\* part_001:406-414: validation, then launchPersistentBrowser() is called; a
\* handle returned at once goes straight to renderPdfFromHtml (220).
OptimizedArrive(r, valid) ==
  /\ Alive /\ NextToArrive(r)
  /\ mode' = [mode EXCEPT ![r] = "optimized"]
  /\ html' = [html EXCEPT ![r] = ensureHtmlInput(valid)]
  /\ IF HandlerReturns(ensureHtmlInput(valid))
     THEN /\ pc' = [pc EXCEPT ![r] = "done"]
          /\ headersSent' = [headersSent EXCEPT ![r] = ~valid]
          /\ status' = [status EXCEPT ![r] = IF valid THEN 0 ELSE 400]
          /\ UNCHANGED <<managerVars, engState, callVars, browser, err>>
     ELSE /\ launchPersistentBrowser(r)
          /\ pc' = [pc EXCEPT ![r] =
                      CASE AcquireResult = None -> "acquire"
                        [] AcquireResult = Failed -> "done"
                        [] OTHER -> "newPage"]
          /\ browser' = [browser EXCEPT ![r] =
                           IF AcquireResult \in SharedIds THEN AcquireResult ELSE None]
          /\ err' = [err EXCEPT ![r] =
                       IF AcquireResult = Failed THEN "launch" ELSE "none"]
          /\ headersSent' = [headersSent EXCEPT ![r] =
                               ~valid \/ AcquireResult = Failed]
          /\ status' = [status EXCEPT ![r] =
                          IF ~valid THEN 400
                          ELSE IF AcquireResult = Failed THEN 500 ELSE 0]
  /\ UNCHANGED <<helperVars, shutdownVars, phase, engCloses, disconnectPending, page, fpc, finished,
                 aborted, pageVars>>

\* part_001:176-190: the shared launch settles.  The .then callback stores
\* the browser and attaches the "disconnected" listener, .finally clears the
\* launch promise, and every caller awaiting the promise resumes with its
\* outcome: requests go on to browser.newPage() (220) or to their catch block
\* (439-456, with `page` still null), the startup code returns (487-492).
Waiters(e) == {c \in Callers : pc[c] = "acquire" /\ ticket[c] = e}

SharedLaunchSettle(e, ok) ==
  /\ Alive /\ e \in SharedIds /\ engState[e] = "launching"
  /\ engState' = [engState EXCEPT ![e] = IF ok THEN "connected" ELSE "failed"]
  /\ persistentBrowser' = IF ok THEN ThenStore(e) ELSE persistentBrowser
  /\ persistentBrowserLaunchPromise' = FinallyClear
  /\ UNCHANGED staleFired
  /\ got' = [c \in Callers |->
               IF c \in Waiters(e) THEN (IF ok THEN e ELSE Failed) ELSE got[c]]
  /\ pc' = [c \in Callers |->
              IF c \in Waiters(e)
              THEN (IF c # Startup /\ ok THEN "newPage" ELSE "done")
              ELSE pc[c]]
  /\ browser' = [r \in Req |-> IF r \in Waiters(e) /\ ok THEN e ELSE browser[r]]
  /\ err' = [r \in Req |-> IF r \in Waiters(e) /\ ~ok THEN "launch" ELSE err[r]]
  /\ headersSent' = [r \in Req |->
                       IF r \in Waiters(e) /\ ~ok THEN TRUE ELSE headersSent[r]]
  /\ status' = [r \in Req |->
                  IF r \in Waiters(e) /\ ~ok /\ ~headersSent[r] THEN 500
                  ELSE status[r]]
  /\ UNCHANGED <<helperVars, shutdownVars, phase, engCloses, disconnectPending, ticket, launches, mode,
                 html, page, fpc, finished, aborted, pageVars>>

\* ------------------------------------------------- renderPdfFromHtml (218-262)
\* part_001:220: browser.newPage() settles.  It lies outside the try block, so
\* its failure reaches the handler's catch directly.
NewPageSettle(r, ok) ==
  /\ Alive /\ pc[r] = "newPage"
  /\ ok => isConnected(browser[r])
  /\ IF ok
     THEN /\ pageState' = [pageState EXCEPT ![r] = "open"]
          /\ pageEngine' = [pageEngine EXCEPT ![r] = browser[r]]
          /\ pc' = [pc EXCEPT ![r] = "setContent"]
          /\ UNCHANGED <<err, pageCloses, engCloses, headersSent, status>>
     ELSE /\ err' = [err EXCEPT ![r] = "newPage"]
          /\ UNCHANGED pageEngine
          /\ EnterCatch(r, page[r])
  /\ UNCHANGED <<helperVars, shutdownVars, phase, managerVars, engState, disconnectPending, callVars,
                 mode, html, browser, page, fpc, finished, aborted>>

\* part_001:254-259: the catch block of renderPdfFromHtml calls page.close().
RenderCatchNoClose(r, what) ==
  /\ err' = [err EXCEPT ![r] = what]
  /\ pc' = [pc EXCEPT ![r] = "renderClose"]
  /\ UNCHANGED <<pageCloses, pageState>>

\* The failure is recorded and the next step is started all the same.
RenderCatchContinues(r, what) ==
  /\ err' = [err EXCEPT ![r] = what]
  /\ pc' = [pc EXCEPT ![r] = "pdf"]
  /\ UNCHANGED <<pageCloses, pageState>>

RenderCatch(r, what) ==
  /\ err' = [err EXCEPT ![r] = what]
  /\ pageCloses' = [pageCloses EXCEPT ![r] = @ + 1]
  /\ pageState' = [pageState EXCEPT ![r] = "closing"]
  /\ pc' = [pc EXCEPT ![r] = "renderClose"]

\* part_001:228-235: setContent + emulateMediaType under the 25 s deadline.
SetContentSettle(r, out) ==
  /\ Alive /\ pc[r] = "setContent"
  /\ IF out = "ok"
     THEN /\ pc' = [pc EXCEPT ![r] = "pdf"]
          /\ UNCHANGED <<err, pageCloses, pageState>>
     ELSE RenderCatch(r, IF out = "timeout" THEN "loadTimeout" ELSE "load")
  /\ UNCHANGED <<helperVars, shutdownVars, phase, managerVars, engineVars, callVars, resVars, pageEngine,
                 mode, html, browser, page, fpc>>

\* part_001:240-248: page.pdf under the 20 s deadline fails or times out.
PdfFail(r, out) ==
  /\ Alive /\ pc[r] = "pdf"
  /\ RenderCatch(r, IF out = "timeout" THEN "pdfTimeout" ELSE "pdf")
  /\ UNCHANGED <<helperVars, shutdownVars, phase, managerVars, engineVars, callVars, resVars, pageEngine,
                 mode, html, browser, page, fpc>>

\* part_001:259-260: the close in render's catch settles (its error is
\* swallowed) and the render error is rethrown into the handler's catch, where
\* the handler's `page` is still null (349 / 420 was not reached).
RenderCloseSettle(r, ok) ==
  /\ Alive /\ pc[r] = "renderClose"
  /\ pageState' = AfterPageClose(r, ok)
  /\ CatchBrowser(r)
  /\ err' = [err EXCEPT ![r] = Swallow(@, ok)]
  /\ UNCHANGED <<helperVars, shutdownVars, phase, managerVars, engState, disconnectPending, callVars,
                 finished, aborted, pageEngine, pageCloses, mode, html, browser, page, fpc>>

\* part_001:373 / 438: sendPdfBuffer returned and the handler is done.
SendDoneCleanup(r) ==
  /\ pc' = [pc EXCEPT ![r] = "catchPageClose"]
  /\ pageCloses' = [pageCloses EXCEPT ![r] = @ + 1]
  /\ pageState' = [pageState EXCEPT ![r] = "closing"]
  /\ UNCHANGED engCloses

SendDone(r) ==
  /\ pc' = [pc EXCEPT ![r] = "done"]
  /\ UNCHANGED <<pageCloses, pageState, engCloses>>

\* part_001:253, 349-373 / 420-438: page.pdf succeeded, render returns, the
\* handler sets `page`, registers the "finish" callback and calls
\* sendPdfBuffer (264-282).  res.set throws when the headers have been sent;
\* sendOk = FALSE is any other failure of the send before the headers go out.
PdfDone(r, sendOk) ==
  /\ Alive /\ pc[r] = "pdf"
  /\ page' = [page EXCEPT ![r] = TRUE]
  /\ fpc' = [fpc EXCEPT ![r] = "armed"]
  /\ IF sendOk /\ ~headersSent[r]
     THEN /\ headersSent' = [headersSent EXCEPT ![r] = TRUE]
          /\ status' = [status EXCEPT ![r] = 200]
          /\ SendDone(r)
          /\ UNCHANGED err
     ELSE /\ err' = [err EXCEPT ![r] = "send"]
          /\ EnterCatch(r, TRUE)
  /\ UNCHANGED <<helperVars, shutdownVars, phase, managerVars, engState, disconnectPending, callVars,
                 finished, aborted, pageEngine, mode, html, browser>>

\* part_001:376-381 / 440-445: the page.close() of the handler's catch settles.
CatchPageCloseSettle(r, ok) ==
  /\ Alive /\ pc[r] = "catchPageClose"
  /\ pageState' = AfterPageClose(r, ok)
  /\ CatchBrowser(r)
  /\ err' = [err EXCEPT ![r] = Swallow(@, ok)]
  /\ UNCHANGED <<helperVars, shutdownVars, phase, managerVars, engState, disconnectPending, callVars,
                 finished, aborted, pageEngine, pageCloses, mode, html, browser, page, fpc>>

\* part_001:382-398: the browser.close() of the isolated catch settles.
CatchBrowserCloseSettle(r, ok) ==
  /\ Alive /\ pc[r] = "catchBrowserClose"
  /\ engState' = AfterBrowserClose(browser[r], ok)
  /\ Respond500(r)
  /\ err' = [err EXCEPT ![r] = Swallow(@, ok)]
  /\ UNCHANGED <<helperVars, shutdownVars, phase, managerVars, engCloses, disconnectPending, callVars,
                 finished, aborted, pageVars, mode, html, browser, page, fpc>>

\* ------------------------------------------------ res.on("finish") callbacks
\* part_001:359-364: only the isolated callback closes a browser (423-430).
FinishClosesBrowser(r) == mode[r] = "isolated" /\ browser[r] # None

FinishBrowser(r) ==
  IF FinishClosesBrowser(r)
  THEN /\ engCloses' = [engCloses EXCEPT ![browser[r]] = @ + 1]
       /\ fpc' = [fpc EXCEPT ![r] = "browserClose"]
  ELSE /\ fpc' = [fpc EXCEPT ![r] = "done"]
       /\ UNCHANGED engCloses

\* part_001:352-365 / 423-430 from the first line.
FinishHandler(r) ==
  IF page[r] /\ pageState[r] # "closed"
  THEN /\ pageCloses' = [pageCloses EXCEPT ![r] = @ + 1]
       /\ pageState' = [pageState EXCEPT ![r] = "closing"]
       /\ fpc' = [fpc EXCEPT ![r] = "pageClose"]
       /\ UNCHANGED engCloses
  ELSE /\ UNCHANGED <<pageCloses, pageState>>
       /\ FinishBrowser(r)

\* The response has been handed to the socket completely: "finish" fires once
\* and runs the callback if one is registered by then.
ResFinish(r) ==
  /\ Alive /\ headersSent[r] /\ ~finished[r] /\ ~aborted[r]
  /\ finished' = [finished EXCEPT ![r] = TRUE]
  /\ IF fpc[r] = "armed"
     THEN FinishHandler(r)
     ELSE UNCHANGED <<fpc, pageCloses, pageState, engCloses>>
  /\ UNCHANGED <<helperVars, shutdownVars, phase, managerVars, engState, disconnectPending, pc, callVars,
                 headersSent, status, aborted, pageEngine, mode, html, browser,
                 page, err>>

FinishPageCloseSettle(r, ok) ==
  /\ Alive /\ fpc[r] = "pageClose"
  /\ pageState' = AfterPageClose(r, ok)
  /\ FinishBrowser(r)
  /\ UNCHANGED <<helperVars, shutdownVars, phase, managerVars, engState, disconnectPending, pc, callVars,
                 resVars, pageEngine, pageCloses, mode, html, browser, page, err>>

FinishBrowserCloseSettle(r, ok) ==
  /\ Alive /\ fpc[r] = "browserClose"
  /\ engState' = AfterBrowserClose(browser[r], ok)
  /\ fpc' = [fpc EXCEPT ![r] = "done"]
  /\ UNCHANGED <<helperVars, shutdownVars, phase, managerVars, engCloses, disconnectPending, pc, callVars,
                 resVars, pageVars, mode, html, browser, page, err>>

\* The client closes the connection before the response has finished; "finish"
\* never fires for this response (only "close", part_001:100-108).  The
\* handlers never look at the connection, so an abort before the response is
\* written acts as one right after it: in both res.end() completes no response.
ClientAbort(r) ==
  /\ Alive /\ headersSent[r] /\ ~finished[r] /\ ~aborted[r]
  /\ aborted' = [aborted EXCEPT ![r] = TRUE]
  /\ UNCHANGED <<helperVars, shutdownVars, phase, managerVars, engineVars, pc, callVars, headersSent,
                 status, finished, pageVars, reqVars>>

\* ------------------------------------------------------------ engine events
\* A shared engine crashes or is closed from outside: isConnected() turns
\* false and its "disconnected" event is queued.
EngineDisconnect(e) ==
  /\ Alive /\ e \in SharedIds /\ isConnected(e)
  /\ engState' = [engState EXCEPT ![e] = "disconnected"]
  /\ disconnectPending' = disconnectPending \cup {e}
  /\ UNCHANGED <<helperVars, shutdownVars, phase, managerVars, engCloses, pc, callVars, resVars,
                 pageVars, reqVars>>

\* part_001:181-184: the listener attached to e runs.
DisconnectNotify(e) ==
  /\ Alive /\ e \in disconnectPending
  /\ persistentBrowser' = OnDisconnected(e)
  /\ staleFired' = IF persistentBrowser = e THEN e ELSE staleFired
  /\ disconnectPending' = disconnectPending \ {e}
  /\ UNCHANGED <<helperVars, shutdownVars, phase, persistentBrowserLaunchPromise, engState, engCloses,
                 pc, callVars, resVars, pageVars, reqVars>>

\* ------------------------------------------------------ shutdown (497-507)
\* part_001:501  if (persistentBrowser)
ShutdownClosesNever == FALSE

ShutdownCloses == persistentBrowser # None

\* part_001:497-505: a termination signal runs shutdown().  With a handle
\* stored it calls persistentBrowser.close() and awaits it; with none stored it
\* reaches process.exit(0) in the same turn, whatever else is pending.
Shutdown ==
  /\ Alive /\ signals < NSig
  /\ signals' = signals + 1
  /\ IF ShutdownCloses
     THEN /\ engCloses' = [engCloses EXCEPT ![persistentBrowser] = @ + 1]
          /\ shutClosing' = shutClosing \cup {persistentBrowser}
          /\ phase' = "closing"
     ELSE /\ phase' = "exited"
          /\ UNCHANGED <<engCloses, shutClosing>>
  /\ UNCHANGED <<helperVars, managerVars, engState, disconnectPending, pc,
                 callVars, resVars, pageVars, reqVars>>

\* part_001:503-505: the close awaited by a shutdown call settles (a rejection
\* is swallowed) and process.exit(0) follows.
ShutdownCloseSettle(b, ok) ==
  /\ Alive /\ b \in shutClosing
  /\ engState' = AfterBrowserClose(b, ok)
  /\ phase' = "exited"
  /\ UNCHANGED <<helperVars, shutdownVars, managerVars, engCloses,
                 disconnectPending, pc, callVars, resVars, pageVars, reqVars>>

\* ---------------------------------------------------------------- Next
Outcomes == {"ok", "error", "timeout"}

Next ==
  \/ \E r \in Req, valid \in BOOLEAN : IsolatedArrive(r, valid)
  \/ \E r \in Req, ok \in BOOLEAN : IsolatedLaunchSettle(r, ok)
  \/ \E r \in Req, valid \in BOOLEAN : OptimizedArrive(r, valid)
  \/ \E e \in SharedIds, ok \in BOOLEAN : SharedLaunchSettle(e, ok)
  \/ \E r \in Req, ok \in BOOLEAN : NewPageSettle(r, ok)
  \/ \E r \in Req, out \in Outcomes : SetContentSettle(r, out)
  \/ \E r \in Req, out \in Outcomes \ {"ok"} : PdfFail(r, out)
  \/ \E r \in Req, ok \in BOOLEAN : RenderCloseSettle(r, ok)
  \/ \E r \in Req, sendOk \in BOOLEAN : PdfDone(r, sendOk)
  \/ \E r \in Req, ok \in BOOLEAN : CatchPageCloseSettle(r, ok)
  \/ \E r \in Req, ok \in BOOLEAN : CatchBrowserCloseSettle(r, ok)
  \/ \E r \in Req : ResFinish(r)
  \/ \E r \in Req, ok \in BOOLEAN : FinishPageCloseSettle(r, ok)
  \/ \E r \in Req, ok \in BOOLEAN : FinishBrowserCloseSettle(r, ok)
  \/ \E r \in Req : ClientAbort(r)
  \/ \E e \in SharedIds : EngineDisconnect(e)
  \/ \E e \in SharedIds : DisconnectNotify(e)

Spec == Init /\ [][Next]_vars

\* The shared engine lifecycle manager with its callers: the startup code and
\* NAcq requests of the optimized handler, each followed from its arrival to
\* the session it opens on the handle it was given.  The later steps of a
\* request do not touch persistentBrowser, the launch promise or a shared
\* engine.
InitManager == InitFor(NAcq) /\ NoTimeoutCalls /\ NoSendCall /\ NoNameCall

NextManager ==
  \/ \E r \in Req, valid \in BOOLEAN : OptimizedArrive(r, valid)
  \/ \E e \in SharedIds, ok \in BOOLEAN : SharedLaunchSettle(e, ok)
  \/ \E r \in Req, ok \in BOOLEAN : NewPageSettle(r, ok)
  \/ \E e \in SharedIds : EngineDisconnect(e)
  \/ \E e \in SharedIds : DisconnectNotify(e)

SpecManager == InitManager /\ [][NextManager]_vars

\* Requests of both handlers side by side, each followed from its arrival to
\* the session it opens on the engine it holds (or to the failure of its
\* launch or of newPage), with the events of the shared engine.
InitSessions == InitFor(NSes) /\ NoTimeoutCalls /\ NoSendCall /\ NoNameCall

NextSessions ==
  \/ \E r \in Req, valid \in BOOLEAN : IsolatedArrive(r, valid)
  \/ \E r \in Req, ok \in BOOLEAN : IsolatedLaunchSettle(r, ok)
  \/ \E r \in Req, valid \in BOOLEAN : OptimizedArrive(r, valid)
  \/ \E e \in SharedIds, ok \in BOOLEAN : SharedLaunchSettle(e, ok)
  \/ \E r \in Req, ok \in BOOLEAN : NewPageSettle(r, ok)
  \/ \E r \in Req, ok \in BOOLEAN : CatchBrowserCloseSettle(r, ok)
  \/ \E e \in SharedIds : EngineDisconnect(e)
  \/ \E e \in SharedIds : DisconnectNotify(e)

SpecSessions == InitSessions /\ [][NextSessions]_vars

\* The shared engine lifecycle manager with its callers, as in SpecManager,
\* and the termination signals of the process.
NextShutdown ==
  \/ \E r \in Req, valid \in BOOLEAN : OptimizedArrive(r, valid)
  \/ \E e \in SharedIds, ok \in BOOLEAN : SharedLaunchSettle(e, ok)
  \/ \E r \in Req, ok \in BOOLEAN : NewPageSettle(r, ok)
  \/ \E e \in SharedIds : EngineDisconnect(e)
  \/ \E e \in SharedIds : DisconnectNotify(e)
  \/ Shutdown
  \/ \E b \in SharedIds, ok \in BOOLEAN : ShutdownCloseSettle(b, ok)

InitShutdown == InitFor(NShut) /\ NoTimeoutCalls /\ NoSendCall /\ NoNameCall

SpecShutdown == InitShutdown /\ [][NextShutdown]_vars

\* withTimeout on its own: NCalls calls, each with its operation and timer.
InitTimeout ==
  /\ InitFor(0) /\ NoSendCall /\ NoNameCall
  /\ promise = [k \in 1..NCalls |-> "none"]
  /\ timer = [k \in 1..NCalls |-> "none"]
  /\ message = [k \in 1..NCalls |-> "undefined"]
  /\ raced = [k \in 1..NCalls |-> "none"]

NextTimeout ==
  \/ \E k \in Calls, m \in Messages : withTimeout(k, m)
  \/ \E k \in Calls, out \in {"fulfilled", "rejected"} : OperationSettle(k, out)
  \/ \E k \in Calls : TimerFire(k)

SpecTimeout == InitTimeout /\ [][NextTimeout]_vars

\* sendPdfBuffer on its own: one call for every buffer, on a response that is
\* fresh or has been answered.
InitSend ==
  /\ InitFor(0) /\ NoTimeoutCalls /\ NoNameCall
  /\ sendPc = "call"
  /\ sendBuffer \in Buffers
  /\ sendRes \in {FreshRes, AnsweredRes}
  /\ sendLog = {}

NextSend == sendPdfBuffer

SpecSend == InitSend /\ [][NextSend]_vars

\* safeFilename on its own: one call for every input.
InitFilename ==
  /\ InitFor(0) /\ NoTimeoutCalls /\ NoSendCall
  /\ nameInput \in NameInputs
  /\ nameResult = [returned |-> FALSE, name |-> <<>>]

NextFilename == SafeFilenameCall

SpecFilename == InitFilename /\ [][NextFilename]_vars

TypeOK ==
  /\ phase \in {"running", "closing", "exited"}
  /\ signals \in 0..NSig /\ shutClosing \subseteq SharedIds
  /\ persistentBrowser \in SharedIds \cup {None}
  /\ staleFired \in SharedIds \cup {None}
  /\ persistentBrowserLaunchPromise \in SharedIds \cup {None}
  /\ engState \in [EngineIds -> {"none", "launching", "connected",
                                 "disconnected", "closed", "failed"}]
  /\ disconnectPending \subseteq SharedIds
  /\ got \in [Callers -> SharedIds \cup {None, Failed}]
  /\ \A r \in Req : pageCloses[r] \in 0..3 /\ status[r] \in {0, 200, 400, 500}

\* ======================================================================
\* Claims
\* ======================================================================
Launching == {e \in SharedIds : engState[e] = "launching"}
Live == {e \in SharedIds : engState[e] = "connected"}
StoredConnected ==
  persistentBrowser # None /\ engState[persistentBrowser] = "connected"
\* Request r makes its call of launchPersistentBrowser() in this step.
AcquireStep(r) == pc[r] = "idle" /\ pc'[r] # "idle" /\ mode'[r] = "optimized"

\* C1 (SpecManager).  Single-flight: at most one shared launch is in flight,
\* every caller that is waiting awaits that one launch, and all callers that
\* awaited the same launch received the same result: its handle, or the
\* failure.
C1_SingleFlight ==
  /\ Cardinality(Launching) <= 1
  /\ \A c \in Callers :
       pc[c] = "acquire" =>
         /\ ticket[c] = persistentBrowserLaunchPromise
         /\ ticket[c] \in Launching
  /\ \A c1, c2 \in Callers :
       (/\ ticket[c1] # None /\ ticket[c1] = ticket[c2]
        /\ got[c1] # None /\ got[c2] # None) => got[c1] = got[c2]
  /\ \A c \in Callers :
       (ticket[c] # None /\ got[c] # None) => got[c] \in {ticket[c], Failed}

\* Three callers (the startup code and two requests) awaited the first launch
\* and every one of them received its handle.
C1_Witness ==
  /\ Cardinality(Callers) >= 3
  /\ \A c \in Callers : ticket[c] = 1 /\ got[c] = 1

\* C2 (SpecManager).  At most one engine launched by the lifecycle manager is
\* live (launched, connected, not closed) in every reachable state.
C2_AtMostOneLive == Cardinality(Live) <= 1

\* C3 (Spec).  A request answered with 400 for missing or blank HTML starts no
\* engine launch, makes no acquire() and opens no session.
C3_InvalidTouchesNothing ==
  \A r \in Req :
    status[r] = 400 =>
      /\ launches[r] = 0
      /\ engState[IsoId(r)] = "none"
      /\ ticket[r] = None /\ got[r] = None
      /\ pageState[r] = "none"

\* No callback of request r is pending or can still run.
Quiescent(r) ==
  /\ pc[r] = "done"
  /\ fpc[r] \notin {"pageClose", "browserClose"}
  /\ fpc[r] = "armed" => (finished[r] \/ aborted[r])

\* C4 (Spec).  An isolated request with valid HTML that reached rendering made
\* exactly one engine launch, its engine is never closed twice, and once the
\* request has ended with its connection still open the engine has been
\* closed exactly once.
C4_IsolatedClosedOnce ==
  \A r \in Req :
    (mode[r] = "isolated" /\ html[r] = "html" /\ browser[r] # None) =>
      /\ launches[r] = 1
      /\ engCloses[IsoId(r)] <= 1
      /\ (Quiescent(r) /\ ~aborted[r]) => engCloses[IsoId(r)] = 1

\* C5 (Spec).  No step closes a shared engine, the stored singleton changes
\* only when a shared launch settles or a "disconnected" listener runs (never
\* in a step of a request), and a request of the optimized handler closes no
\* engine at all: the only thing it closes is its own session.
C5_SharedUntouched ==
  [][/\ \A e \in SharedIds : engCloses'[e] = engCloses[e]
     /\ persistentBrowser' # persistentBrowser =>
          \/ \E e \in SharedIds : engState[e] = "launching" /\ engState'[e] = "connected"
          \/ disconnectPending' # disconnectPending
     /\ \A r \in Req :
          (mode[r] = "optimized" /\ (pc'[r] # pc[r] \/ fpc'[r] # fpc[r])) =>
             /\ engCloses' = engCloses
             /\ \A q \in Req \ {r} : pageCloses'[q] = pageCloses[q]]_vars

\* A request of the optimized handler failed after it had opened its session
\* on the shared handle, closed that session, and the shared handle is still
\* stored, connected and never closed.
C5_Witness ==
  \E r \in Req :
    /\ mode[r] = "optimized" /\ pc[r] = "done" /\ status[r] = 500
    /\ pageCloses[r] = 1 /\ pageEngine[r] = persistentBrowser
    /\ StoredConnected /\ engCloses[persistentBrowser] = 0

\* C6 as claimed (SpecManager).  Once the "disconnected" event of the stored
\* handle has fired, the next acquire() itself starts a new launch.
C6_NextAcquireLaunches ==
  [][\A r \in Req :
       (AcquireStep(r) /\ staleFired # None) =>
          /\ launches'[r] = launches[r] + 1
          /\ ticket'[r] \in Launching']_vars

\* C6 amended (SpecManager).  Once the "disconnected" event of the stored
\* handle A has fired, the next acquire() is never served A: it starts a new
\* launch, or awaits a launch that began after A, or is served a handle that
\* was launched after A; a handle it receives is newer than A.
C6_Recovery ==
  [][\A r \in Req :
       (AcquireStep(r) /\ staleFired # None) =>
          /\ got'[r] # staleFired
          /\ \/ launches'[r] = launches[r] + 1 /\ ticket'[r] \in Launching'
             \/ ticket'[r] # None /\ ticket'[r] = persistentBrowserLaunchPromise
                /\ ticket'[r] \in Launching /\ ticket'[r] > staleFired
             \/ ticket'[r] = None /\ got'[r] = persistentBrowser
                /\ got'[r] > staleFired /\ engState[got'[r]] = "connected"
          /\ got'[r] # None => got'[r] > staleFired]_vars

\* The event of the stored handle 1 fired and the next acquire() started
\* launch 2, whose handle the caller then received.
C6_Witness ==
  \E r \in Req :
    /\ engState[1] = "disconnected" /\ 1 \notin disconnectPending
    /\ launches[r] = 1 /\ ticket[r] = 2 /\ got[r] = 2
    /\ persistentBrowser = 2

\* C7 (SpecManager).  Whenever launchPersistentBrowser() hands a caller a
\* handle, that handle is connected at that moment, for callers served from
\* the store and for callers that awaited a launch.
C7_ReturnedConnected ==
  [][\A c \in Callers :
       (got'[c] # got[c] /\ got'[c] \in SharedIds) =>
          engState'[got'[c]] = "connected"]_vars

\* One caller was served a handle from the store and another received a
\* handle it had awaited.
C7_Witness ==
  \E c1, c2 \in Callers :
    /\ ticket[c1] = None /\ got[c1] \in SharedIds
    /\ ticket[c2] # None /\ got[c2] \in SharedIds

\* C8 (SpecManager).  While a connected handle is stored, acquire() returns
\* that handle at once and starts no launch; a session a request opens is
\* opened on the handle the request was given.
C8_ReadyReuses ==
  [][\A r \in Req :
       /\ (AcquireStep(r) /\ StoredConnected) =>
            /\ got'[r] = persistentBrowser
            /\ ticket'[r] = None
            /\ launches' = launches
            /\ engState' = engState
            /\ persistentBrowserLaunchPromise' = persistentBrowserLaunchPromise
            /\ persistentBrowser' = persistentBrowser
       /\ (pageState[r] = "none" /\ pageState'[r] = "open") =>
            /\ pageEngine'[r] = got[r]
            /\ \A q \in Req \ {r} : pageState'[q] = pageState[q]]_vars

\* Two consecutive requests were both served the stored handle 1 and each has
\* its own open session on it; only the startup launch was ever made.
C8_Witness ==
  \E r1, r2 \in Req :
    /\ r1 # r2
    /\ ticket[r1] = None /\ ticket[r2] = None
    /\ got[r1] = 1 /\ got[r2] = 1
    /\ pageState[r1] = "open" /\ pageState[r2] = "open"
    /\ pageEngine[r1] = 1 /\ pageEngine[r2] = 1
    /\ launches[r1] = 0 /\ launches[r2] = 0

\* C9 (SpecManager).  When a shared launch fails the launch promise is
\* cleared, the failed launch stores nothing (no connected handle is stored),
\* every caller awaiting it receives the failure, and an acquire() never
\* replays a failure: it returns a handle or awaits a launch in flight.
C9_LaunchFailure ==
  [][/\ \A e \in SharedIds :
          (engState[e] = "launching" /\ engState'[e] = "failed") =>
             /\ persistentBrowserLaunchPromise' = None
             /\ persistentBrowser' = persistentBrowser
             /\ persistentBrowser' # e
             /\ ~StoredConnected'
             /\ \A c \in Callers :
                  (pc[c] = "acquire" /\ ticket[c] = e) => got'[c] = Failed
     /\ \A r \in Req :
          AcquireStep(r) =>
             /\ got'[r] # Failed
             /\ ticket'[r] # None => ticket'[r] \in Launching']_vars

\* Launch 1 failed with two callers awaiting it, both received the failure,
\* and a later acquire() started launch 2.
C9_Witness ==
  \E r1, r2 \in Req :
    /\ engState[1] = "failed"
    /\ ticket[Startup] = 1 /\ got[Startup] = Failed
    /\ ticket[r1] = 1 /\ got[r1] = Failed
    /\ ticket[r2] = 2 /\ launches[r2] = 1 /\ engState[2] = "launching"

\* C10 (Spec).  After a 200 response has been written, neither the session
\* nor (isolated) the engine has been closed as long as the response has not
\* finished; when the finish callback has run, the session has been closed
\* once, the isolated engine once, and in the optimized handler no engine.
C10_CloseAfterFinish ==
  \A r \in Req :
    status[r] = 200 =>
      /\ ~finished[r] =>
           /\ pageCloses[r] = 0 /\ pageState[r] = "open"
           /\ engCloses[browser[r]] = 0
      /\ pageCloses[r] <= 1
      /\ (finished[r] /\ fpc[r] = "done") =>
           /\ pageCloses[r] = 1
           /\ engCloses[browser[r]] = (IF mode[r] = "isolated" THEN 1 ELSE 0)

\* An isolated request was answered 200, the response finished, and the
\* finish callback then closed the session and the engine.
C10_Witness ==
  \E r \in Req :
    /\ mode[r] = "isolated" /\ status[r] = 200
    /\ finished[r] /\ fpc[r] = "done"
    /\ pageState[r] = "closed" /\ engState[IsoId(r)] = "closed"

\* What renderPdfFromHtml throws from inside its try block (part_001:223-253).
RenderErrors == {"load", "loadTimeout", "pdf", "pdfTimeout"}

RaceSettled(k) == raced[k] \notin {"none", "pending"}

\* C12 (SpecTimeout).  If the operation settles while the timer is pending,
\* the returned promise settles in that step with the operation's own
\* outcome; if the timer fires first, the returned promise fails with the
\* message passed to the call (the default text when none was passed) and the
\* operation stays as it was, still running; an outcome once reported never
\* changes, whatever settles later.
C12_TimeoutOutcome ==
  [][\A k \in Calls :
       /\ (promise[k] = "pending" /\ promise'[k] # "pending" /\ timer[k] = "armed") =>
            /\ promise'[k] \in {"fulfilled", "rejected"}
            /\ raced'[k] = promise'[k]
       /\ (timer[k] = "armed" /\ timer'[k] = "fired") =>
            /\ raced'[k] = (IF message[k] = "undefined"
                            THEN "Operation timed out" ELSE message[k])
            /\ promise[k] = "pending" /\ promise'[k] = "pending"
       /\ RaceSettled(k) => raced'[k] = raced[k]]_vars

\* A call timed out with the message it was given, and its operation, which
\* kept running, was fulfilled afterwards: the reported outcome is still the
\* timeout.
C12_Witness ==
  \E k \in Calls :
    /\ message[k] = "Timed out while generating PDF"
    /\ raced[k] = "Timed out while generating PDF"
    /\ timer[k] = "fired" /\ promise[k] = "fulfilled"

\* C13 (SpecTimeout).  Once the promise returned by a call has settled, by the
\* operation's success, by its failure or by the deadline, the timer of that
\* call is not pending any more (it was cleared or it has fired); and a call
\* whose operation has settled has no armed timer, so when the operations of
\* all calls made have settled no timer is armed.
C13_NoTimerLeft ==
  /\ \A k \in Calls :
       /\ RaceSettled(k) => timer[k] \in {"cleared", "fired"}
       /\ promise[k] \in {"fulfilled", "rejected"} => timer[k] # "armed"
  /\ (\A k \in Calls : promise[k] # "pending") =>
       {k \in Calls : timer[k] = "armed"} = {}

\* Three calls have settled, one on each path (success, operation failure,
\* deadline), the operation of the third settled later, and no timer is armed.
C13_Witness ==
  \E k1, k2, k3 \in Calls :
    /\ raced[k1] = "fulfilled" /\ timer[k1] = "cleared"
    /\ raced[k2] = "rejected" /\ timer[k2] = "cleared"
    /\ raced[k3] = "Timed out while setting page content"
    /\ timer[k3] = "fired" /\ promise[k3] = "rejected"

\* C14 (Spec).  A request has at most one response started: its status is
\* written at the moment its headers go out and never again, so a failure in
\* a handler writes the 500 only when nothing has been sent for the request,
\* and a failure after the response has started writes nothing.
C14_OneResponse ==
  [][\A r \in Req :
       /\ (status[r] # 0) <=> headersSent[r]
       /\ headersSent[r] => (headersSent'[r] /\ status'[r] = status[r])
       /\ (status'[r] = 500 /\ status[r] # 500) => ~headersSent[r]
       /\ (err'[r] # "none" /\ pc'[r] = "done" /\ pc[r] # "done") =>
            status'[r] = (IF headersSent[r] THEN status[r] ELSE 500)]_vars

\* A request whose response had already started (the 400 of the validation)
\* failed later in its handler, and the handler ended without writing
\* anything more.
C14_Witness ==
  \E r \in Req :
    /\ status[r] = 400 /\ err[r] \in {"launch", "load", "pdf", "send"}
    /\ pc[r] = "done"

\* The step that resumes the handler of request r: the engine operation the
\* handler awaits settles, one way or the other.
HandlerStep(r) ==
  \/ \E ok \in BOOLEAN : IsolatedLaunchSettle(r, ok)
  \/ \E ok \in BOOLEAN : pc[r] = "acquire" /\ SharedLaunchSettle(ticket[r], ok)
  \/ \E ok \in BOOLEAN : NewPageSettle(r, ok)
  \/ \E out \in Outcomes : SetContentSettle(r, out)
  \/ \E out \in Outcomes \ {"ok"} : PdfFail(r, out)
  \/ \E sendOk \in BOOLEAN : PdfDone(r, sendOk)
  \/ \E ok \in BOOLEAN : RenderCloseSettle(r, ok)
  \/ \E ok \in BOOLEAN : CatchPageCloseSettle(r, ok)
  \/ \E ok \in BOOLEAN : CatchBrowserCloseSettle(r, ok)

DigitValue(c) == (CHOOSE i \in DOMAIN Digit : Digit[i] = c) - 1
RECURSIVE ParseDecimal(_)
ParseDecimal(s) ==
  IF s = <<>> THEN 0
  ELSE ParseDecimal(SubSeq(s, 1, Len(s) - 1)) * 10 + DigitValue(s[Len(s)])

\* The bytes begin with the five bytes of "%PDF-".
BeginsWithSignature(buf) ==
  Len(buf) >= 5 /\ \A i \in 1..5 : buf[i] = Signature[i]
\* The same with each byte read as 7-bit ASCII.
BeginsWithSignatureAscii(buf) ==
  Len(buf) >= 5 /\ \A i \in 1..5 : buf[i] \in {Signature[i], Signature[i] + 128}

\* C16 (SpecSend).  On a response that has not been started, sendPdfBuffer
\* sends status 200, a body that is exactly the bytes it was given and a
\* Content-Length that denotes their number, for every buffer, with or
\* without the signature; the signature decides only whether
\* "pdf_signature_missing" is logged (never for bytes that begin with %PDF-).
\* On a response already started it throws and writes nothing.
C16_SignatureNotGating ==
  /\ sendPc = "returned" =>
       /\ sendRes.headersSent /\ sendRes.statusCode = 200
       /\ sendRes.body = sendBuffer
       /\ sendRes.contentLength # <<>>
       /\ ParseDecimal(sendRes.contentLength) = Len(sendBuffer)
       /\ sendLog \subseteq {"pdf_signature_missing"}
       /\ BeginsWithSignature(sendBuffer) => sendLog = {}
       /\ (sendLog = {}) <=> BeginsWithSignatureAscii(sendBuffer)
  /\ sendPc = "threw" => (sendRes = AnsweredRes /\ sendLog = {})

\* Five bytes that do not begin with the signature were sent unchanged with
\* status 200 and Content-Length 5, and the anomaly was logged.
C16_Witness ==
  /\ sendPc = "returned"
  /\ Len(sendBuffer) = 5 /\ ~BeginsWithSignature(sendBuffer)
  /\ sendBuffer[1] = 0
  /\ sendRes.statusCode = 200 /\ sendRes.body = sendBuffer
  /\ sendRes.contentLength = <<"5">>
  /\ sendLog = {"pdf_signature_missing"}

\* A buffer of ten bytes that begins with the signature was sent unchanged
\* with Content-Length "10" and nothing was logged.
C16_WitnessSigned ==
  /\ sendPc = "returned"
  /\ Len(sendBuffer) = 10 /\ BeginsWithSignature(sendBuffer)
  /\ sendRes.body = sendBuffer /\ sendRes.contentLength = <<"1", "0">>
  /\ sendLog = {}

\* C17 (SpecFilename).  Whatever the input, the name returned is not empty,
\* consists of letters, digits, ".", "_" and "-" only (so it has no path
\* separator), and ends in ".pdf" when compared without regard to case; if
\* the input already ended in ".pdf" in any casing nothing is appended; and a
\* missing, non-string, empty or all-whitespace input yields "document.pdf".
C17_SafeName ==
  nameResult.returned =>
    LET name == nameResult.name
        given == nameInput.chars
    IN /\ name # <<>>
       /\ \A i \in DOMAIN name :
            name[i] \in AllowList /\ name[i] \notin {"/", "\\"}
       /\ endsWith(toLowerCase(name), DotPdf)
       /\ (nameInput.type = "string" /\ endsWith(toLowerCase(trim(given)), DotPdf)) =>
            (name = Fallback \/ Len(name) <= Len(given))
       /\ ~endsWith(toLowerCase(name), DotPdf \o DotPdf)
            \/ endsWith(toLowerCase(trim(given)), DotPdf)
       /\ (nameInput.type # "string" \/ \A i \in DOMAIN given : given[i] \in Whitespace) =>
            name = Fallback

\* "../p" came back as ".._p.pdf": the separator is gone and the suffix was
\* added once.
C17_Witness ==
  /\ nameResult.returned
  /\ nameInput = [type |-> "string", chars |-> <<".", ".", "/", "p">>]
  /\ nameResult.name = <<".", ".", "_", "p", ".", "p", "d", "f">>

\* "f.Pdf" came back unchanged: its casing is kept and no second suffix added.
C17_WitnessCase ==
  /\ nameResult.returned
  /\ nameInput = [type |-> "string", chars |-> <<"f", ".", "P", "d", "f">>]
  /\ nameResult.name = <<"f", ".", "P", "d", "f">>

\* C18 (SpecManager).  The "disconnected" listener of handle e clears the
\* stored singleton only while e is the stored handle: when it runs with
\* another handle stored, that handle stays stored.
C18_StaleNotifyKeepsNewer ==
  [][\A e \in SharedIds :
       (e \in disconnectPending /\ e \notin disconnectPending') =>
          persistentBrowser' =
            (IF persistentBrowser = e THEN None ELSE persistentBrowser)]_vars

\* C19 (Spec).  After a successful render (a 200 response was started), once
\* nothing of the request is pending any more, whether its response finished
\* or its connection was closed by the client first, the deferred cleanup has
\* run: close() was called on the session and, for an isolated request, on
\* its engine.
C19_CleanupAlwaysRuns ==
  \A r \in Req :
    (status[r] = 200 /\ Quiescent(r)) =>
      /\ pageCloses[r] >= 1
      /\ mode[r] = "isolated" => engCloses[IsoId(r)] >= 1

\* C20 (Spec).  On the failure path the error in flight is never replaced:
\* the error render threw is the one the handler catches and the one the 500
\* reports.  Whatever the outcome of the session close, the isolated handler
\* goes on to close its engine, and whatever the outcome of the last close
\* the handler ends by answering 500 unless a response had been started.
C20_CleanupNeverMasks ==
  [][\A r \in Req :
       /\ err[r] # "none" => err'[r] = err[r]
       /\ (pc[r] \in {"renderClose", "catchPageClose"} /\ pc'[r] # pc[r]) =>
            IF mode[r] = "isolated" /\ browser[r] # None
            THEN /\ pc'[r] = "catchBrowserClose"
                 /\ engCloses'[browser[r]] = engCloses[browser[r]] + 1
            ELSE pc'[r] = "done"
       /\ (pc[r] = "catchBrowserClose" /\ pc'[r] # pc[r]) => pc'[r] = "done"
       /\ (pc[r] # "done" /\ pc'[r] = "done" /\ err'[r] # "none") =>
            /\ headersSent'[r]
            /\ status'[r] = (IF headersSent[r] THEN status[r] ELSE 500)
            /\ pc[r] \in {"renderClose", "catchPageClose"} => err'[r] = err[r]]_vars

\* Artifact emission failed in an isolated request, the close of the session
\* failed, the close of the engine was still attempted and failed too, and
\* the handler answered 500 with the emission error.
C20_Witness ==
  \E r \in Req :
    /\ mode[r] = "isolated" /\ err[r] = "pdf"
    /\ pageCloses[r] = 1 /\ pageState[r] = "open"
    /\ engCloses[IsoId(r)] = 1 /\ engState[IsoId(r)] = "connected"
    /\ pc[r] = "done" /\ status[r] = 500

\* C21 (Spec).  The steps of one render follow one another: load-content
\* starts in the step in which the session was opened, on that open session;
\* artifact emission starts only in the step in which load-content completed
\* without failure; a load failure or load timeout leads to the close of the
\* session and emission is never started afterwards; each of the two steps
\* has its own deadline, whose expiry is reported for that step only.
C21_StepsSequential ==
  [][\A r \in Req :
       /\ (pc'[r] = "setContent" /\ pc[r] # "setContent") =>
            /\ pc[r] = "newPage"
            /\ pageState[r] = "none" /\ pageState'[r] = "open"
       /\ (pc'[r] = "pdf" /\ pc[r] # "pdf") =>
            /\ pc[r] = "setContent"
            /\ err'[r] = "none" /\ pageState'[r] = "open"
       /\ (err'[r] \in {"load", "loadTimeout"} /\ err[r] = "none") =>
            (pc[r] = "setContent" /\ pc'[r] = "renderClose")
       /\ (err'[r] \in {"pdf", "pdfTimeout"} /\ err[r] = "none") =>
            (pc[r] = "pdf" /\ pc'[r] = "renderClose")
       /\ err[r] \in {"load", "loadTimeout"} =>
            (pc'[r] # "pdf" /\ err'[r] = err[r] /\ ~page'[r])
       /\ (page'[r] /\ ~page[r]) => (pc[r] = "pdf" /\ err[r] = "none")]_vars

\* Load-content completed, emission was started and ran into its own
\* deadline.
C21_Witness ==
  \E r \in Req :
    /\ err[r] = "pdfTimeout" /\ pc[r] = "renderClose"
    /\ pageState[r] = "closing" /\ html[r] = "html"

\* Load-content ran into its deadline; the session was closed and the request
\* ended without emission.
C21_WitnessLoadTimeout ==
  \E r \in Req :
    /\ err[r] = "loadTimeout" /\ pc[r] = "done" /\ ~page[r]
    /\ pageState[r] = "closed" /\ status[r] = 500

\* Request r of the isolated handler takes a step.
IsolatedStep(r) == mode'[r] = "isolated" /\ pc'[r] # pc[r]

\* C22 (SpecSessions).  A step of an isolated request leaves the stored
\* singleton, the launch promise and every shared engine as they are, the
\* request never awaits or receives a shared handle, and the only engine it
\* ever holds is the one it launched itself.  A session is opened on the
\* engine its request holds: for an isolated request its own engine, for an
\* optimized request a shared one, never the engine of another request.
C22_IsolatedIndependent ==
  [][\A r \in Req :
       /\ IsolatedStep(r) =>
            /\ persistentBrowser' = persistentBrowser
            /\ persistentBrowserLaunchPromise' = persistentBrowserLaunchPromise
            /\ \A e \in SharedIds :
                 engState'[e] = engState[e] /\ engCloses'[e] = engCloses[e]
            /\ disconnectPending' = disconnectPending
            /\ ticket'[r] = None /\ got'[r] = None
            /\ browser'[r] \notin SharedIds
            /\ \A q \in Req \ {r} :
                 browser'[r] # None => browser'[r] # browser'[q]
       /\ (pageState[r] = "none" /\ pageState'[r] = "open") =>
            /\ pageEngine'[r] = browser[r]
            /\ mode[r] = "isolated" => pageEngine'[r] \notin SharedIds
            /\ mode[r] = "optimized" => pageEngine'[r] \in SharedIds
            /\ \A q \in Req \ {r} :
                 mode[q] = "isolated" =>
                   (pageEngine'[r] # browser[q] /\ engState[pageEngine'[r]] = "connected")]_vars

\* Two isolated requests and the shared engine side by side: each request has
\* its session open on its own engine, and the handle stored at startup is
\* still stored, connected and never closed.
C22_Witness ==
  \E r1, r2 \in Req :
    /\ r1 # r2 /\ mode[r1] = "isolated" /\ mode[r2] = "isolated"
    /\ pageState[r1] = "open" /\ pageEngine[r1] = browser[r1]
    /\ pageState[r2] = "open" /\ pageEngine[r2] = browser[r2]
    /\ browser[r1] # browser[r2]
    /\ persistentBrowser = 1 /\ engState[1] = "connected" /\ engCloses[1] = 0

\* A termination signal is handled in this step; the process exits in this
\* step.
ShutdownCall == signals' = signals + 1
Exit == phase # "exited" /\ phase' = "exited"

\* C23 (SpecShutdown).  A shutdown call that finds a handle stored calls
\* close() on it and the process exits only afterwards, when an awaited close
\* has settled, successfully or not; a call that finds none stored exits at
\* once.  So at exit close() has been called on every handle a shutdown call
\* found stored.  Neither the call nor the exit touches a launch in flight or
\* its promise, and while the process waits for the close its settlement,
\* which ends in the exit, is always possible.
C23_ShutdownClosesStored ==
  [][/\ ShutdownCall =>
          IF persistentBrowser # None
          THEN /\ engCloses'[persistentBrowser] = engCloses[persistentBrowser] + 1
               /\ persistentBrowser \in shutClosing'
               /\ phase' = "closing"
          ELSE /\ phase' = "exited"
               /\ engCloses' = engCloses
     /\ Exit =>
          /\ \A b \in shutClosing' : engCloses'[b] >= 1
          /\ ~ShutdownCall => (phase = "closing" /\ shutClosing # {})
     /\ (ShutdownCall \/ Exit) =>
          /\ persistentBrowserLaunchPromise' = persistentBrowserLaunchPromise
          /\ persistentBrowser' = persistentBrowser
          /\ \A e \in SharedIds :
               engState[e] = "launching" => engState'[e] = "launching"
          /\ pc' = pc /\ got' = got
     /\ phase' = "closing" => shutClosing' # {}]_vars

\* The process has exited after the close of the stored handle 1 failed,
\* while the launch of handle 2, started by a request, was still in flight.
C23_Witness ==
  /\ phase = "exited"
  /\ 1 \in shutClosing /\ engCloses[1] = 1 /\ engState[1] # "closed"
  /\ persistentBrowser = 1
  /\ engState[2] = "launching" /\ persistentBrowserLaunchPromise = 2

\* C24 (Spec).  Each session is closed at most once: over the close in
\* render's catch, the close in the handler's catch and the close in the
\* "finish" callback, page.close() is called at most one time on the session
\* of a request with valid HTML, however these callbacks interleave.
C24_SessionClosedOnce ==
  \A r \in Req : html[r] = "html" => pageCloses[r] <= 1
====
